---- MODULE Spec2Model ----
(***************************************************************************)
(* A model of htmlwrite: the Tag descriptor and the Writer state machine   *)
(* (frame stack, the two line-position flags, the element scope returned   *)
(* by Writer.context and the buffered scope only_write_if_successful).     *)
(*                                                                         *)
(* A sink is the sequence of the chunks handed to out_file.write, one      *)
(* record per call: s is the string written, k names the statement that    *)
(* wrote it.  A writer method is an operator from a writer record to a     *)
(* writer record; a raised exception is the field exc, and every statement *)
(* after a raise is skipped, as in Python.                                 *)
(***************************************************************************)
EXTENDS Integers, Sequences, FiniteSets, TLC

\* Operations a run performs (scope exits and exception unwinding excluded).
MaxOps == 2
\* A sink write of an operation may be rejected at position 0..MaxFailAt.
MaxFailAt == 2
\* Operations of a run about line layout.
MaxLineOps == 2
\* Operations of a run of nested element scopes.
MaxNested == 3
\* Operations of a run on tag descriptors with attributes.
MaxTagOps == 2
\* Operations of a run around buffered scopes.
MaxBufferOps == 5

----------------------------------------------------------------------------
\* Values handed to the writer

\* A str: its characters, grouped into atoms (a markup character or a run
\* of ordinary characters).
Str(atoms) == [k |-> "str", name |-> "", atoms |-> atoms, sub |-> <<>>]

\* None
NoneV == [k |-> "none", name |-> "", atoms |-> <<>>, sub |-> <<>>]

\* A list or tuple of items.
List(items) == [k |-> "list", name |-> "", atoms |-> <<>>, sub |-> items]

\* A Markup instance: a str that escape returns as it is.
MarkupStr(atoms) == [k |-> "markup", name |-> "", atoms |-> atoms, sub |-> <<>>]

\* True and False, and an int; True == 1 and False == 0 in Python.
bool(b) == [k |-> "bool", n |-> IF b THEN 1 ELSE 0]
int(n) == [k |-> "int", n |-> n]

\* Tag(tag_name): contents is None (sub = <<>>), style and class_ are (), no
\* keyword arguments.
Tag(tag_name) ==
  [k |-> "tag", name |-> tag_name, atoms |-> <<>>, sub |-> <<>>,
   style |-> <<>>, class_ |-> List(<<>>), args |-> <<>>]

\* Tag(tag_name, c=contents): sub = <<contents>>.
TagC(tag_name, contents) ==
  [k |-> "tag", name |-> tag_name, atoms |-> <<>>, sub |-> <<contents>>,
   style |-> <<>>, class_ |-> List(<<>>), args |-> <<>>]

\* isinstance(item, Tag)
IsTag(item) == item.k = "tag"

\* tag.contents is not None
HasContents(tag) == tag.sub # <<>>

\* Python truth value: bool(item)
Truthy(item) ==
  CASE item.k = "none" -> FALSE
    [] item.k \in {"str", "markup"} ->
         \E i \in 1..Len(item.atoms) : item.atoms[i] # ""
    [] item.k \in {"bool", "int"} -> item.n # 0
    [] item.k = "list" -> item.sub # <<>>
    [] OTHER           -> TRUE

RECURSIVE Concat(_)
Concat(strs) == IF strs = <<>> THEN "" ELSE Head(strs) \o Concat(Tail(strs))

RECURSIVE Repeat(_, _)
Repeat(s, n) == IF n <= 0 THEN "" ELSE s \o Repeat(s, n - 1)

\* markupsafe.escape on one atom.
EscapeAtom(a) ==
  CASE a = "&"  -> "&amp;"
    [] a = "<"  -> "&lt;"
    [] a = ">"  -> "&gt;"
    [] a = "\"" -> "&#34;"
    [] a = "'"  -> "&#39;"
    [] OTHER    -> a

\* The atoms of EscapeAtom(a).
EscapedAtoms(a) ==
  CASE a = "&"  -> <<"&", "amp;">>
    [] a = "<"  -> <<"&", "lt;">>
    [] a = ">"  -> <<"&", "gt;">>
    [] a = "\"" -> <<"&", "#34;">>
    [] a = "'"  -> <<"&", "#39;">>
    [] OTHER    -> <<a>>

RECURSIVE Flatten(_)
Flatten(seqs) == IF seqs = <<>> THEN <<>> ELSE Head(seqs) \o Flatten(Tail(seqs))

\* str(value) for a value that is no str already.
str_atoms(value) ==
  CASE value.k \in {"str", "markup"} -> value.atoms
    [] value.k = "bool" -> IF value.n = 1 THEN <<"True">> ELSE <<"False">>
    [] value.k = "int"  -> <<ToString(value.n)>>
    [] OTHER            -> <<"None">>

\* markupsafe.escape, the atoms of its result: a Markup instance is returned
\* as it is, anything else is converted to str and escaped.
escape_atoms(value) ==
  IF value.k = "markup" THEN value.atoms
  ELSE LET atoms == str_atoms(value)
       IN Flatten([i \in 1..Len(atoms) |-> EscapedAtoms(atoms[i])])

\* markupsafe.escape
escape(item) ==
  IF item.k = "str"
  THEN Concat([i \in 1..Len(item.atoms) |-> EscapeAtom(item.atoms[i])])
  ELSE Concat(escape_atoms(item))

void_tags == {"area", "base", "basefont", "br", "col", "frame", "hr", "img",
              "input", "isindex", "link", "meta", "param"}

tag_start(name) == "<" \o name \o ">"

tag_end(name) == "</" \o name \o ">"

tag_start_with_args(name, args_html) == "<" \o name \o " " \o args_html \o ">"

boolean_attrs == {"checked", "defer", "disabled", "multiple", "readonly", "selected"}

\* The characters of attribute names, in code point order.  An attribute
\* name is the sequence of its characters.
Alphabet ==
  <<"-", "0", "1", "2", "A", "B", "Z", "_", "a", "b", "c", "d", "e", "f", "g",
    "h", "i", "j", "k", "l", "m", "n", "o", "p", "q", "r", "s", "t", "u", "v",
    "w", "x", "y", "z">>

Ord(c) == CHOOSE i \in DOMAIN Alphabet : Alphabet[i] = c

\* name1 < name2 as Python compares two str.
RECURSIVE NameLess(_, _)
NameLess(name1, name2) ==
  IF name2 = <<>> THEN FALSE
  ELSE IF name1 = <<>> THEN TRUE
  ELSE IF Head(name1) # Head(name2) THEN Ord(Head(name1)) < Ord(Head(name2))
  ELSE NameLess(Tail(name1), Tail(name2))

\* sorted(args.items()): the keyword arguments (a set of <<name, value>>
\* with distinct names) in ascending order of their names as given.
RECURSIVE sorted(_)
sorted(items) ==
  IF items = {} THEN <<>>
  ELSE LET first == CHOOSE p \in items :
                      \A q \in items \ {p} : NameLess(p[1], q[1])
       IN <<first>> \o sorted(items \ {first})

RECURSIVE rstrip_underscores(_)
rstrip_underscores(name) ==
  IF name # <<>> /\ name[Len(name)] = "_"
  THEN rstrip_underscores(SubSeq(name, 1, Len(name) - 1))
  ELSE name

optimize_attr_name(name) ==
  LET stripped == rstrip_underscores(name)
  IN [i \in DOMAIN stripped |-> IF stripped[i] = "_" THEN "-" ELSE stripped[i]]

\* k.startswith('s_')
IsStyleArg(name) == Len(name) >= 2 /\ name[1] = "s" /\ name[2] = "_"

\* The atoms of ' '.join(strs), each str given by its atoms.
RECURSIVE JoinAtoms(_)
JoinAtoms(strs) ==
  IF strs = <<>> THEN <<>>
  ELSE IF Len(strs) = 1 THEN Head(strs)
  ELSE Head(strs) \o <<" ">> \o JoinAtoms(Tail(strs))

\* Tag(tag_name, style=style, class_=class_, **args): style is a sequence of
\* <<name, value>>, class_ a str or a List of str, args a set of
\* <<name, value>> that line 109 sorts.
TagWith(tag_name, style, class_, args) ==
  [k |-> "tag", name |-> tag_name, atoms |-> <<>>, sub |-> <<>>,
   style |-> style, class_ |-> class_, args |-> sorted(args)]

IsStylePair(pair) == IsStyleArg(pair[1])
IsTagPair(pair) == ~IsStyleArg(pair[1])
HasTruthyValue(pair) == Truthy(pair[2])

\* _start_tag, line 85: the style string, from the style items and the s_
\* keyword arguments.
style_atoms(style, args) ==
  LET style_from_args == SelectSeq(args, IsStylePair)
      items == style \o [i \in DOMAIN style_from_args |->
                           <<SubSeq(style_from_args[i][1], 3,
                                    Len(style_from_args[i][1])),
                             style_from_args[i][2]>>]
  IN JoinAtoms([i \in DOMAIN items |->
                  <<Concat(optimize_attr_name(items[i][1])), ": ">>
                  \o escape_atoms(items[i][2]) \o <<";">>])

\* _start_tag, lines 86-87: the class string.
class_value(class_) ==
  IF class_.k = "list"
  THEN Str(JoinAtoms([i \in DOMAIN class_.sub |-> class_.sub[i].atoms]))
  ELSE class_

\* _start_tag, line 89: one attribute.
args_item(pair) ==
  IF pair[1] \in boolean_attrs THEN pair[1]
  ELSE Concat(<<pair[1], "=\"">> \o escape_atoms(pair[2]) \o <<"\"">>)

\* _start_tag (lines 81-94), what it computes when the cache has no entry.
uncached_start_tag(tag_name, style, class_, args) ==
  LET tag_args == SelectSeq(args, IsTagPair)
      pairs == << <<"class", class_value(class_)>>,
                  <<"style", Str(style_atoms(style, args))>> >>
               \o [i \in DOMAIN tag_args |->
                     <<Concat(optimize_attr_name(tag_args[i][1])), tag_args[i][2]>>]
      shown == SelectSeq(pairs, HasTruthyValue)
      args_html == Concat(JoinAtoms([i \in DOMAIN shown |-> <<args_item(shown[i])>>]))
  IN IF args_html # "" THEN tag_start_with_args(tag_name, args_html)
     ELSE tag_start(tag_name)

\* Tag.start_tag as _start_tag computes it from the descriptor's own fields.
start_tag(tag) == uncached_start_tag(tag.name, tag.style, tag.class_, tag.args)

\* Tag.end_tag without the void-tag table.
end_tag_of_any_name(tag) == tag_end(tag.name)

\* Tag.end_tag
end_tag(tag) == IF tag.name \notin void_tags THEN tag_end(tag.name) ELSE ""

\* Tag.empty_tag, given what Tag.start_tag returned.
empty_tag(tag, its_start_tag) ==
  IF tag.name \notin void_tags THEN its_start_tag \o end_tag(tag)
  ELSE its_start_tag

\* a == b as Python compares two values: True == 1, False == 0, a Markup
\* instance equals the str of the same characters, tuples compare item by item.
RECURSIVE PyEq(_, _)
PyEq(a, b) ==
  CASE a.k \in {"bool", "int"} -> b.k \in {"bool", "int"} /\ a.n = b.n
    [] a.k \in {"str", "markup"} ->
         b.k \in {"str", "markup"} /\ Concat(a.atoms) = Concat(b.atoms)
    [] a.k = "list" ->
         /\ b.k = "list"
         /\ Len(a.sub) = Len(b.sub)
         /\ \A i \in DOMAIN a.sub : PyEq(a.sub[i], b.sub[i])
    [] OTHER -> a = b

\* Two tuples of (name, value) compare equal.
PairsEq(pairs1, pairs2) ==
  /\ Len(pairs1) = Len(pairs2)
  /\ \A i \in DOMAIN pairs1 :
       pairs1[i][1] = pairs2[i][1] /\ PyEq(pairs1[i][2], pairs2[i][2])

\* The key lru_cache makes of the arguments of _start_tag (line 124), and the
\* equality of two keys.
CacheKey(tag) ==
  [name |-> tag.name, style |-> tag.style, class_ |-> tag.class_, args |-> tag.args]

KeyEq(key1, key2) ==
  /\ key1.name = key2.name
  /\ PairsEq(key1.style, key2.style)
  /\ PyEq(key1.class_, key2.class_)
  /\ PairsEq(key1.args, key2.args)

\* The entries of the cache of _start_tag (line 79) under an equal key: at
\* most one.  No run fills the 2048 entries, so no entry is ever evicted.
CacheHits(entries, tag) == {e \in entries : KeyEq(e.key, CacheKey(tag))}

\* Tag.start_tag (lines 122-124): the cached string under an equal key if
\* there is one, else what _start_tag computes ...
lru_start_tag(entries, tag) ==
  IF CacheHits(entries, tag) # {}
  THEN (CHOOSE e \in CacheHits(entries, tag) : TRUE).value
  ELSE start_tag(tag)

\* ... which the cache then holds.
lru_after(entries, tag) ==
  IF CacheHits(entries, tag) # {} THEN entries
  ELSE entries \cup {[key |-> CacheKey(tag), value |-> start_tag(tag)]}

----------------------------------------------------------------------------
\* The writer

writer_stack_item(tag, indent_level, contents_same_line, next_child_same_line) ==
  [tag |-> tag, indent_level |-> indent_level,
   contents_same_line |-> contents_same_line,
   next_child_same_line |-> next_child_same_line]

\* Writer.root_stack
root_stack == writer_stack_item(NoneV, 0, FALSE, FALSE)

\* Writer.indent
indent_unit == "  "

Chunk(k, s) == [k |-> k, s |-> s]

Ok(w) == w.exc = "none"

Raise(w, e) == IF Ok(w) THEN [w EXCEPT !.exc = e] ELSE w

\* out_file.write(s): an in-memory buffer takes every write; any other sink
\* rejects the write when the operation's budget of accepted writes is 0 (a
\* negative budget never runs out), and a rejected write leaves the sink as
\* it was.
SinkWrite(w, k, s) ==
  IF ~Ok(w) THEN w
  ELSE IF w.buffered THEN [w EXCEPT !.out = Append(@, Chunk(k, s))]
  ELSE IF w.budget = 0 THEN [w EXCEPT !.exc = "IOError"]
  ELSE [w EXCEPT !.out = Append(@, Chunk(k, s)), !.budget = @ - 1]

\* out_file.write(tag.start_tag), lines 238 and 211: the property is read,
\* through the cache, before the sink is written.
write_tag_start_tag(w, k, tag) ==
  IF ~Ok(w) THEN w
  ELSE SinkWrite([w EXCEPT !.cache = lru_after(@, tag)], k,
                 lru_start_tag(w.cache, tag))

get_current_stack(w) ==
  IF w.stack = <<>> THEN root_stack ELSE w.stack[Len(w.stack)]

write_start_whitespace(w, indent_level, is_tag, indent) ==
  IF ~Ok(w) THEN w
  ELSE
    LET w1 == IF ~w.current_line_indent_written
              THEN LET a == SinkWrite(w, "indent",
                              Repeat(indent_unit, IF indent THEN indent_level ELSE 0))
                   IN IF Ok(a) THEN [a EXCEPT !.current_line_indent_written = TRUE]
                      ELSE a
              ELSE IF ~is_tag /\ ~w.last_write_is_tag
                   THEN SinkWrite(w, "space", " ")
                   ELSE w
    IN IF Ok(w1) THEN [w1 EXCEPT !.last_write_is_tag = is_tag] ELSE w1

write_end_whitespace(w, same_line) ==
  IF ~Ok(w) \/ same_line THEN w
  ELSE LET a == SinkWrite(w, "newline", "\n")
       IN IF Ok(a) THEN [a EXCEPT !.current_line_indent_written = FALSE] ELSE a

\* Line 232 nesting the frame whatever indent is.
new_indent_level_always_deeper(prev_stack, next_child_same_line, indent) ==
  IF ~next_child_same_line THEN prev_stack.indent_level + 1
  ELSE prev_stack.indent_level

\* write_start_tag, line 232: the indent level of the new frame.
new_indent_level(prev_stack, next_child_same_line, indent) ==
  IF indent /\ ~next_child_same_line THEN prev_stack.indent_level + 1
  ELSE prev_stack.indent_level

\* Line 233 taking the requested value alone.
new_contents_same_line_as_requested(prev_stack, contents_same_line) ==
  contents_same_line

\* write_start_tag, line 233: contents_same_line of the new frame.
new_contents_same_line(prev_stack, contents_same_line) ==
  prev_stack.contents_same_line \/ contents_same_line

\* What write_start_tag pushed, under which frame and with which arguments
\* (bookkeeping of the model).
Push(prev_stack, new_stack, next_child_same_line, contents_same_line, indent) ==
  [prev_stack |-> prev_stack, new_stack |-> new_stack,
   next_child_same_line |-> next_child_same_line,
   contents_same_line |-> contents_same_line, indent |-> indent]

\* write_start_tag deciding the newline after the start tag without
\* next_child_same_line.
write_start_tag_breaks_line(w, tag, next_child_same_line, contents_same_line, indent) ==
  IF ~Ok(w) THEN w
  ELSE
    LET prev_stack == get_current_stack(w)
        new_stack == writer_stack_item(
                       tag,
                       new_indent_level(prev_stack, next_child_same_line, indent),
                       new_contents_same_line(prev_stack, contents_same_line),
                       next_child_same_line)
        w1 == [w EXCEPT !.stack = Append(@, new_stack),
                        !.pushed = Append(@, Push(prev_stack, new_stack,
                                                  next_child_same_line,
                                                  contents_same_line, indent))]
        w2 == write_start_whitespace(w1, prev_stack.indent_level, TRUE, indent)
        w3 == write_tag_start_tag(w2, "start_tag", tag)
    IN write_end_whitespace(w3, prev_stack.contents_same_line \/ contents_same_line)

write_start_tag(w, tag, next_child_same_line, contents_same_line, indent) ==
  IF ~Ok(w) THEN w
  ELSE
    LET prev_stack == get_current_stack(w)
        new_stack == writer_stack_item(
                       tag,
                       new_indent_level(prev_stack, next_child_same_line, indent),
                       new_contents_same_line(prev_stack, contents_same_line),
                       next_child_same_line)
        w1 == [w EXCEPT !.stack = Append(@, new_stack),
                        !.pushed = Append(@, Push(prev_stack, new_stack,
                                                  next_child_same_line,
                                                  contents_same_line, indent))]
        w2 == write_start_whitespace(w1, prev_stack.indent_level, TRUE, indent)
        w3 == write_tag_start_tag(w2, "start_tag", tag)
    IN write_end_whitespace(w3, prev_stack.contents_same_line
                                  \/ contents_same_line \/ next_child_same_line)

\* write_end_tag returning quietly when no element is open.
write_end_tag_lenient(w, indent, next_same_line) ==
  IF ~Ok(w) \/ w.stack = <<>> THEN w
  ELSE
    LET popped_stack == w.stack[Len(w.stack)]
        w1 == [w EXCEPT !.stack = SubSeq(@, 1, Len(@) - 1)]
        current_stack == get_current_stack(w1)
        w2 == write_start_whitespace(w1, current_stack.indent_level, TRUE, indent)
        w3 == IF Ok(w2) THEN [w2 EXCEPT !.last_write_is_tag = TRUE] ELSE w2
        w4 == SinkWrite(w3, "end_tag", end_tag(popped_stack.tag))
    IN write_end_whitespace(w4, next_same_line
                                  \/ current_stack.contents_same_line
                                  \/ current_stack.next_child_same_line)

write_end_tag(w, indent, next_same_line) ==
  IF ~Ok(w) THEN w
  ELSE IF w.stack = <<>> THEN Raise(w, "IndexError")
  ELSE
    LET popped_stack == w.stack[Len(w.stack)]
        w1 == [w EXCEPT !.stack = SubSeq(@, 1, Len(@) - 1)]
        current_stack == get_current_stack(w1)
        w2 == write_start_whitespace(w1, current_stack.indent_level, TRUE, indent)
        w3 == IF Ok(w2) THEN [w2 EXCEPT !.last_write_is_tag = TRUE] ELSE w2
        w4 == SinkWrite(w3, "end_tag", end_tag(popped_stack.tag))
    IN write_end_whitespace(w4, next_same_line
                                  \/ current_stack.contents_same_line
                                  \/ current_stack.next_child_same_line)

\* Writer.write, lines 187-194: validate and open the leading tags.
RECURSIVE write_open_tags(_, _, _, _, _, _)
write_open_tags(w, items, i, contents_same_line, tags_same_line, indent_tags) ==
  IF ~Ok(w) \/ i > Len(items) - 1 THEN w
  ELSE IF ~IsTag(items[i]) THEN Raise(w, "ValueError")
  ELSE IF HasContents(items[i]) THEN Raise(w, "ValueError")
  ELSE write_open_tags(
         write_start_tag(w, items[i],
                         IF i + 1 = Len(items) THEN contents_same_line
                         ELSE tags_same_line,
                         FALSE, indent_tags),
         items, i + 1, contents_same_line, tags_same_line, indent_tags)

\* The closing loop of Writer.write leaving after its first round.
write_close_tags_once(w, len_items, i, indent_tags, next_same_line) ==
  IF ~Ok(w) \/ i > len_items - 1 THEN w
  ELSE write_end_tag(w, indent_tags, next_same_line /\ (i + 1 = len_items))

\* Writer.write, lines 221-223: close the leading tags, innermost first.
RECURSIVE write_close_tags(_, _, _, _, _)
write_close_tags(w, len_items, i, indent_tags, next_same_line) ==
  IF ~Ok(w) \/ i > len_items - 1 THEN w
  ELSE write_close_tags(
         write_end_tag(w, indent_tags, next_same_line /\ (i + 1 = len_items)),
         len_items, i + 1, indent_tags, next_same_line)

\* The keyword arguments of Writer.write.
WriteArgs(contents_same_line, tags_same_line, next_same_line, indent, indent_tags, indent_contents) ==
  [contents_same_line |-> contents_same_line, tags_same_line |-> tags_same_line,
   next_same_line |-> next_same_line, indent |-> indent,
   indent_tags |-> indent_tags, indent_contents |-> indent_contents,
   next_child_same_line |-> FALSE]

\* Lines 175-181 without lines 176-178: the frame's contents_same_line not
\* imposed on the call.
adjust_args_unforced(args, current_stack) ==
  [args EXCEPT
     !.indent_tags = @ /\ args.indent,
     !.indent_contents = @ /\ args.indent]

\* Writer.write, lines 175-181: the keyword arguments under the current frame.
adjust_args(args, current_stack) ==
  [args EXCEPT
     !.contents_same_line = @ \/ current_stack.contents_same_line,
     !.tags_same_line = @ \/ current_stack.contents_same_line,
     !.indent_tags = @ /\ args.indent,
     !.indent_contents = @ /\ args.indent]

RECURSIVE write(_, _, _)
RECURSIVE write_contents(_, _, _, _, _, _)

\* Writer.write, lines 206-219: the items of the last argument; o holds the
\* keyword arguments as adjusted by lines 176-181.
write_contents(w, last_item, i, current_stack, last_item_next_same_line, o) ==
  IF ~Ok(w) \/ i > Len(last_item) THEN w
  ELSE
    LET sub_item == last_item[i]
        last == i = Len(last_item)
        w1 == write_start_whitespace(w, current_stack.indent_level,
                                     IsTag(sub_item), o.indent_contents)
        w2 == IF sub_item.k = "none" THEN w1
              ELSE IF IsTag(sub_item)
              THEN LET a == write_tag_start_tag(w1, "item_start_tag", sub_item)
                       b == IF HasContents(sub_item) /\ Truthy(sub_item.sub[1])
                            THEN write(a, <<sub_item.sub[1]>>,
                                       WriteArgs(o.contents_same_line,
                                                 o.tags_same_line, TRUE, TRUE,
                                                 o.indent_tags, o.indent_contents))
                            ELSE a
                   IN SinkWrite(b, "item_end_tag", end_tag(sub_item))
              ELSE SinkWrite(w1, "text", escape(sub_item))
        w3 == write_end_whitespace(w2, IF last THEN last_item_next_same_line
                                       ELSE o.contents_same_line)
    IN write_contents(w3, last_item, i + 1, current_stack,
                      last_item_next_same_line, o)

\* Writer.write(*items, **args)
write(w, items, args) ==
  IF ~Ok(w) THEN w
  ELSE IF items = <<>> THEN Raise(w, "IndexError")
  ELSE
    LET o == adjust_args(args, get_current_stack(w))
        len_items == Len(items)
        w1 == write_open_tags(w, items, 1, o.contents_same_line,
                              o.tags_same_line, o.indent_tags)
        last_arg == items[len_items]
        last_item == IF last_arg.k = "list" THEN last_arg.sub ELSE <<last_arg>>
        current_stack == get_current_stack(w1)
        last_item_next_same_line ==
          IF len_items = 1
          THEN o.next_same_line \/ current_stack.contents_same_line
          ELSE o.contents_same_line
        w2 == write_contents(w1, last_item, 1, current_stack,
                             last_item_next_same_line, o)
    IN write_close_tags(w2, len_items, 1, o.indent_tags, o.next_same_line)

----------------------------------------------------------------------------------------------------------------------------------------
\* State

VARIABLES
  out_file,                      \* the chunks written to Writer.out_file
  buffered,                      \* out_file is a buffer of only_write_if_successful
  stack,                         \* Writer.stack
  current_line_indent_written,   \* Writer._current_line_indent_written
  last_write_is_tag,             \* Writer._last_write_is_tag
  scopes,                        \* the with-blocks the caller is inside, outermost first
  exc,                           \* the exception propagating through the with-blocks
  last,                          \* the last operation, its arguments and its fault
  log,                           \* the operations so far, when the run keeps them
  nops,                          \* operations performed
  cache,                         \* the entries of the cache of _start_tag
  returned,                      \* what the last operation returned
  pushed                         \* the frames the last operation pushed

vars == <<out_file, buffered, stack, current_line_indent_written,
          last_write_is_tag, scopes, exc, last, log, nops, cache, returned, pushed>>

\* The writer as the methods see it, with the operation's budget of sink writes.
Writer(budget) ==
  [out |-> out_file, buffered |-> buffered, stack |-> stack,
   current_line_indent_written |-> current_line_indent_written,
   last_write_is_tag |-> last_write_is_tag, exc |-> "none", budget |-> budget,
   cache |-> cache, pushed |-> <<>>]

\* The fields a method left behind.
Store(r) ==
  /\ out_file' = r.out
  /\ stack' = r.stack
  /\ current_line_indent_written' = r.current_line_indent_written
  /\ last_write_is_tag' = r.last_write_is_tag
  /\ cache' = r.cache
  /\ pushed' = r.pushed
  /\ returned' = "None"

\* An operation that is no method of the writer leaves its fields.
Keep ==
  /\ pushed' = <<>>
  /\ returned' = "None"
  /\ UNCHANGED <<stack, current_line_indent_written, last_write_is_tag>>

DefaultArgs == WriteArgs(TRUE, TRUE, FALSE, TRUE, TRUE, TRUE)

\* The arguments of write_start_tag and Writer.context.
TagArgs(next_child_same_line, contents_same_line, indent) ==
  [DefaultArgs EXCEPT !.next_child_same_line = next_child_same_line,
                      !.contents_same_line = contents_same_line,
                      !.indent = indent]

\* The arguments of write_end_tag.
EndArgs(indent, next_same_line) ==
  [DefaultArgs EXCEPT !.indent = indent, !.next_same_line = next_same_line]

\* What an operation was: its name, the exception it raised, its arguments,
\* and the buffer a buffered scope ended with.
Op(op, fault, items, args, buffer) ==
  [op |-> op, fault |-> fault, items |-> items, args |-> args, buffer |-> buffer]

Note(o) ==
  /\ last' = o
  /\ log' = IF log = <<>> THEN log ELSE Append(log, o)

\* An exception raised in the body of a with-block propagates to the block
\* (exc) unless the body catches it; outside every with-block it reaches the
\* caller at once.
Propagate(fault) ==
  IF fault = "none" \/ scopes = <<>>
  THEN exc' = "none"
  ELSE exc' \in {fault, "none"}

\* The with-blocks, an explicit write_start_tag or write_end_tag noted in each.
MarkRaw == [i \in DOMAIN scopes |-> [scopes[i] EXCEPT !.raw = TRUE]]

\* What the sink may hold when the writer is constructed on it.
Prior == <<[k |-> "prior", s |-> "<!DOCTYPE html>\n"]>>

Created == Op("init", "none", <<>>, DefaultArgs, <<>>)

\* Writer.__init__ on a sink with content `prior`; `keep`: the run keeps its log.
Construct(prior, keep) ==
  /\ out_file = prior
  /\ buffered = FALSE
  /\ stack = <<>>
  /\ current_line_indent_written = FALSE
  /\ last_write_is_tag = TRUE
  /\ scopes = <<>>
  /\ exc = "none"
  /\ last = Created
  /\ log = IF keep THEN <<Created>> ELSE <<>>
  /\ nops = 0
  /\ cache = {}
  /\ returned = "None"
  /\ pushed = <<>>

Init == \E prior \in {<<>>, Prior} : Construct(prior, FALSE)

CanCall(bound) == exc = "none" /\ nops < bound

\* writer.write(*items, **args), its f-th sink write rejected (f < 0: none)
Write(items, args, f, bound) ==
  /\ CanCall(bound)
  /\ LET r == write(Writer(f), items, args)
     IN /\ Store(r)
        /\ Propagate(r.exc)
        /\ Note(Op("write", r.exc, items, args, <<>>))
  /\ nops' = nops + 1
  /\ UNCHANGED <<buffered, scopes>>

\* writer.write_start_tag(tag, next_child_same_line, contents_same_line, indent)
WriteStartTag(tag, next_child_same_line, contents_same_line, indent, f, bound) ==
  /\ CanCall(bound)
  /\ LET r == write_start_tag(Writer(f), tag, next_child_same_line,
                              contents_same_line, indent)
     IN /\ Store(r)
        /\ Propagate(r.exc)
        /\ Note(Op("write_start_tag", r.exc, <<tag>>,
                   TagArgs(next_child_same_line, contents_same_line, indent), <<>>))
  /\ nops' = nops + 1
  /\ scopes' = MarkRaw
  /\ UNCHANGED buffered

\* writer.write_end_tag(indent, next_same_line)
WriteEndTag(indent, next_same_line, f, bound) ==
  /\ CanCall(bound)
  /\ LET r == write_end_tag(Writer(f), indent, next_same_line)
     IN /\ Store(r)
        /\ Propagate(r.exc)
        /\ Note(Op("write_end_tag", r.exc, <<>>, EndArgs(indent, next_same_line), <<>>))
  /\ nops' = nops + 1
  /\ scopes' = MarkRaw
  /\ UNCHANGED buffered

\* A with-block of the caller: the element scope of Writer.context
\* (TagWriterContext) or the buffered scope of only_write_if_successful.
\* depth, raw, entry: the stack depth before the block, whether its body
\* called write_start_tag or write_end_tag itself, and the stack and the
\* line-position flags before the block (bookkeeping of the model).
Scope(kind, tag, indent, old_out_file, old_buffered) ==
  [kind |-> kind, tag |-> tag, indent |-> indent,
   old_out_file |-> old_out_file, old_buffered |-> old_buffered,
   depth |-> Len(stack), raw |-> FALSE,
   entry |-> [stack |-> stack,
              current_line_indent_written |-> current_line_indent_written,
              last_write_is_tag |-> last_write_is_tag]]

\* with writer.context(tag, ...): TagWriterContext.__enter__ is write_start_tag;
\* the block is entered only if it returns.
ContextEnter(tag, next_child_same_line, contents_same_line, indent, f, bound) ==
  /\ CanCall(bound)
  /\ LET r == write_start_tag(Writer(f), tag, next_child_same_line,
                              contents_same_line, indent)
     IN /\ Store(r)
        /\ Propagate(r.exc)
        /\ Note(Op("context_enter", r.exc, <<tag>>,
                   TagArgs(next_child_same_line, contents_same_line, indent), <<>>))
        /\ scopes' = IF Ok(r)
                     THEN Append(scopes, Scope("context", tag, indent, <<>>, FALSE))
                     ELSE scopes
  /\ nops' = nops + 1
  /\ UNCHANGED buffered

InScope(kind) == scopes # <<>> /\ scopes[Len(scopes)].kind = kind

\* The innermost with-block and the ones around it.
Inner == scopes[Len(scopes)]
Outer == SubSeq(scopes, 1, Len(scopes) - 1)

\* An exception leaving a with-block: the enclosing block's body may catch it,
\* and outside every block it has reached the caller.
Leave(fault) ==
  IF fault = "none" \/ Outer = <<>>
  THEN exc' = "none"
  ELSE exc' \in {fault, "none"}

\* TagWriterContext.__exit__: write_end_tag(indent=indent)
context_exit(w, indent) == write_end_tag(w, indent, FALSE)

\* Leaving the block of writer.context after a body that ended normally.
ContextExit(f) ==
  /\ exc = "none"
  /\ InScope("context")
  /\ LET r == context_exit(Writer(f), Inner.indent)
     IN /\ Store(r)
        /\ Leave(r.exc)
        /\ Note(Op("context_exit", r.exc, <<Inner.tag>>, DefaultArgs, <<>>))
  /\ scopes' = Outer
  /\ UNCHANGED <<buffered, nops>>

\* Leaving it with the body's exception: __exit__ returns False, so the
\* exception goes on, replaced by the one write_end_tag raises if it does.
ContextUnwind(f) ==
  /\ exc # "none"
  /\ InScope("context")
  /\ LET r == context_exit(Writer(f), Inner.indent)
     IN /\ Store(r)
        /\ Leave(IF Ok(r) THEN exc ELSE r.exc)
        /\ Note(Op("context_unwind", r.exc, <<Inner.tag>>, DefaultArgs, <<>>))
  /\ scopes' = Outer
  /\ UNCHANGED <<buffered, nops>>

\* with writer.only_write_if_successful(): lines 270-271
BufferEnter(bound) ==
  /\ CanCall(bound)
  /\ scopes' = Append(scopes, Scope("buffer", NoneV, TRUE, out_file, buffered))
  /\ out_file' = <<>>
  /\ buffered' = TRUE
  /\ Note(Op("buffer_enter", "none", <<>>, DefaultArgs, <<>>))
  /\ nops' = nops + 1
  /\ Keep
  /\ UNCHANGED <<exc, cache>>

\* only_write_if_successful after the yield returned: line 274, then 276.
\* getvalue() is one string, written in one call that an in-memory sink
\* takes and any other sink may reject (f = 0); the sink keeps the chunks
\* the string is made of.
only_write_if_successful_exit(old_out_file, old_buffered, buffer, f) ==
  IF ~old_buffered /\ f = 0
  THEN [out |-> old_out_file, exc |-> "IOError"]
  ELSE [out |-> old_out_file \o buffer, exc |-> "none"]

\* only_write_if_successful copying the buffer in its finally clause.
only_write_if_successful_fail_commits(old_out_file, old_buffered, buffer) ==
  [out |-> old_out_file \o buffer, exc |-> "none"]

\* only_write_if_successful when the yield raised: line 276 alone.
only_write_if_successful_fail(old_out_file, old_buffered, buffer) ==
  [out |-> old_out_file, exc |-> "none"]

BufferExit(f) ==
  /\ exc = "none"
  /\ InScope("buffer")
  /\ LET r == only_write_if_successful_exit(Inner.old_out_file, Inner.old_buffered,
                                            out_file, f)
     IN /\ out_file' = r.out
        /\ Leave(r.exc)
        /\ Note(Op("buffer_exit", r.exc, <<>>, DefaultArgs, out_file))
  /\ buffered' = Inner.old_buffered
  /\ scopes' = Outer
  /\ Keep
  /\ UNCHANGED <<nops, cache>>

BufferUnwind ==
  /\ exc # "none"
  /\ InScope("buffer")
  /\ LET r == only_write_if_successful_fail(Inner.old_out_file, Inner.old_buffered,
                                            out_file)
     IN /\ out_file' = r.out
        /\ Leave(exc)
        /\ Note(Op("buffer_unwind", "none", <<>>, DefaultArgs, out_file))
  /\ buffered' = Inner.old_buffered
  /\ scopes' = Outer
  /\ Keep
  /\ UNCHANGED <<nops, cache>>

\* The body of a with-block raises an exception of its own.
BodyRaise(bound) ==
  /\ CanCall(bound)
  /\ scopes # <<>>
  /\ exc' = "Error"
  /\ Note(Op("raise", "Error", <<>>, DefaultArgs, <<>>))
  /\ nops' = nops + 1
  /\ Keep
  /\ UNCHANGED <<out_file, buffered, scopes, cache>>

\* A property of a Tag read by the caller: the writer is left alone.
TagProperty(op, tag, value, bound) ==
  /\ CanCall(bound)
  /\ returned' = value
  /\ Note(Op(op, "none", <<tag>>, DefaultArgs, <<>>))
  /\ nops' = nops + 1
  /\ pushed' = <<>>
  /\ UNCHANGED <<out_file, buffered, stack, current_line_indent_written,
                 last_write_is_tag, scopes, exc>>

\* tag.start_tag
TagStartTag(tag, bound) ==
  /\ TagProperty("start_tag", tag, lru_start_tag(cache, tag), bound)
  /\ cache' = lru_after(cache, tag)

\* tag.end_tag
TagEndTag(tag, bound) ==
  /\ TagProperty("end_tag", tag, end_tag(tag), bound)
  /\ UNCHANGED cache

\* tag.empty_tag
TagEmptyTag(tag, bound) ==
  /\ TagProperty("empty_tag", tag, empty_tag(tag, lru_start_tag(cache, tag)), bound)
  /\ cache' = lru_after(cache, tag)

----------------
\* Inputs

Hello == Str(<<"Hello">>)
world == Str(<<"world">>)
HelloWorld == Str(<<"Hello world">>)
Markup == Str(<<"Hello ", "<", "world", ">">>)

div == Tag("div")
span == Tag("span")
br == Tag("br")

\* Argument lists of Writer.write for the runs with faults: well-formed ones,
\* and malformed ones (an item before the last that is no Tag or carries
\* contents; no item at all).
FaultItems ==
  { <<Markup>>,
    <<TagC("div", List(<<Hello, world>>))>>,
    <<div, HelloWorld>>,
    <<div, span, List(<<Hello, world>>)>>,
    <<Hello, world>>,
    <<TagC("div", Hello), world>>,
    <<div, Hello, world>>,
    <<div, TagC("span", Hello), world>>,
    <<>> }

\* Well-formed argument lists for the runs about line layout.
LineItems ==
  { <<Markup>>,
    <<List(<<Hello, world>>)>>,
    <<NoneV>>,
    <<br>>,
    <<TagC("div", List(<<Hello, world>>))>>,
    <<List(<<TagC("span", Hello), world>>)>>,
    <<div, List(<<Hello, world>>)>>,
    <<div, span, HelloWorld>> }

\* contents_same_line, tags_same_line, next_same_line in every combination.
SameLineArgs ==
  { WriteArgs(c, t, n, TRUE, TRUE, TRUE) : c \in BOOLEAN, t \in BOOLEAN, n \in BOOLEAN }

\* indent, indent_tags, indent_contents, one disabled at a time.
IndentArgs ==
  { WriteArgs(FALSE, TRUE, FALSE, i[1], i[2], i[3]) :
      i \in {<<FALSE, TRUE, TRUE>>, <<TRUE, FALSE, TRUE>>, <<TRUE, TRUE, FALSE>>} }

\* The sink write of an operation that is rejected (-1: none).
FailPoints == {-1} \cup 0..MaxFailAt

OpenTags == {div, span}

\* Attribute names.
checked == <<"c", "h", "e", "c", "k", "e", "d">>
disabled == <<"d", "i", "s", "a", "b", "l", "e", "d">>
type_ == <<"t", "y", "p", "e", "_">>
id == <<"i", "d">>
foo == <<"f", "o", "o">>
s_moo == <<"s", "_", "m", "o", "o">>
data_b == <<"d", "a", "t", "a", "_", "b">>
data1 == <<"d", "a", "t", "a", "1">>
value == <<"v", "a", "l", "u", "e">>
title == <<"t", "i", "t", "l", "e">>

checkbox == Str(<<"checkbox">>)
bold == <<"<", "b", ">">>

\* Descriptors with style, class and keyword arguments: those of TestTag,
\* names whose order changes when they are normalized, values that compare
\* equal and are rendered differently, values with markup characters.
AttrTags ==
  { TagWith("input", <<>>, List(<<>>), {<<checked, bool(TRUE)>>, <<type_, checkbox>>}),
    TagWith("input", <<>>, List(<<>>), {<<checked, bool(FALSE)>>, <<type_, checkbox>>}),
    TagWith("div", << <<foo, Str(<<"bar">>)>> >>, List(<<>>), {<<s_moo, Str(<<"cow">>)>>}),
    TagWith("div", <<>>, List(<<Str(<<"foo">>), Str(<<"bar">>)>>), {}),
    TagWith("div", <<>>, Str(<<"foo">>), {}),
    TagWith("br", << <<foo, Str(bold)>> >>, Str(<<"a", "&", "b">>),
            {<<id, Str(<<"i">>)>>, <<disabled, bool(TRUE)>>, <<value, int(0)>>}),
    TagWith("div", <<>>, List(<<>>), {<<data_b, Str(<<"1">>)>>, <<data1, Str(<<"2">>)>>}),
    TagWith("input", <<>>, List(<<>>), {<<value, bool(TRUE)>>}),
    TagWith("input", <<>>, List(<<>>), {<<value, int(1)>>}),
    TagWith("div", <<>>, List(<<>>), {<<title, MarkupStr(bold)>>}),
    TagWith("div", <<>>, List(<<>>), {<<title, Str(bold)>>}) }

TagInputs == {div, br} \cup AttrTags

\* Descriptors of a void element and of another one, with and without
\* attributes.
NamedTags == {tag \in TagInputs : tag.name \in {"br", "div"} /\ tag.class_.k = "str"}
               \cup {div, br}

\* Argument lists of Writer.write: a descriptor alone and around a text with
\* markup characters; such a text alone, in a content sequence and as the
\* content of an element.
TagItems ==
  {<<tag>> : tag \in TagInputs} \cup {<<tag, Markup>> : tag \in TagInputs}
    \cup {<<List(<<Markup, TagC("div", Markup)>>)>>}

\* Runs with faults: rejected sink writes, malformed calls, exceptions raised
\* in with-blocks, buffered scopes.
Next ==
  \/ \E items \in FaultItems, f \in FailPoints :
       Write(items, DefaultArgs, f, MaxOps)
  \/ \E tag \in OpenTags, f \in FailPoints :
       WriteStartTag(tag, FALSE, FALSE, TRUE, f, MaxOps)
  \/ \E f \in FailPoints : WriteEndTag(TRUE, FALSE, f, MaxOps)
  \/ \E tag \in OpenTags, f \in FailPoints :
       ContextEnter(tag, FALSE, FALSE, TRUE, f, MaxOps)
  \/ \E f \in FailPoints : ContextExit(f)
  \/ \E f \in FailPoints : ContextUnwind(f)
  \/ BufferEnter(MaxOps)
  \/ \E f \in {-1, 0} : BufferExit(f)
  \/ BufferUnwind
  \/ BodyRaise(MaxOps)

Spec == Init /\ [][Next]_vars

\* Runs about line layout: every sink write accepted, every option of the
\* calls drawn.
NextLines ==
  \/ \E items \in LineItems, args \in SameLineArgs \cup IndentArgs :
       Write(items, args, -1, MaxLineOps)
  \/ \E n \in BOOLEAN, c \in BOOLEAN, i \in BOOLEAN :
       WriteStartTag(div, n, c, i, -1, MaxLineOps)
  \/ \E i \in BOOLEAN, n \in BOOLEAN : WriteEndTag(i, n, -1, MaxLineOps)
  \/ \E n \in BOOLEAN, c \in BOOLEAN, i \in BOOLEAN :
       ContextEnter(span, n, c, i, -1, MaxLineOps)
  \/ ContextExit(-1)

\* A writer on an empty sink.
InitLines == Construct(<<>>, FALSE)

SpecLines == InitLines /\ [][NextLines]_vars

\* Runs on tag descriptors: their properties read, the descriptors written
\* as an item, around a text and with write_start_tag and write_end_tag.
NextTags ==
  \/ \E tag \in TagInputs : TagStartTag(tag, MaxTagOps)
  \/ \E tag \in NamedTags : TagEndTag(tag, MaxTagOps)
  \/ \E tag \in TagInputs : TagEmptyTag(tag, MaxTagOps)
  \/ \E items \in TagItems : Write(items, DefaultArgs, -1, MaxTagOps)
  \/ \E tag \in {div, br} : WriteStartTag(tag, FALSE, FALSE, TRUE, -1, MaxTagOps)
  \/ WriteEndTag(TRUE, FALSE, -1, MaxTagOps)

SpecTags == InitLines /\ [][NextTags]_vars

\* Runs around buffered scopes: an element opened, texts written with and
\* without next_same_line, scopes entered, left and abandoned.
NextBuffer ==
  \/ WriteStartTag(div, FALSE, FALSE, TRUE, -1, MaxBufferOps)
  \/ \E next_same_line \in BOOLEAN :
       Write(<<HelloWorld>>, [DefaultArgs EXCEPT !.next_same_line = next_same_line],
             -1, MaxBufferOps)
  \/ BufferEnter(MaxBufferOps)
  \/ BodyRaise(MaxBufferOps)
  \/ BufferExit(-1)
  \/ BufferUnwind

SpecBuffer == InitLines /\ [][NextBuffer]_vars

\* Runs of nested element scopes around one text.
NextNested ==
  \/ \E tag \in OpenTags, n \in BOOLEAN, c \in BOOLEAN :
       ContextEnter(tag, n, c, TRUE, -1, MaxNested)
  \/ Write(<<HelloWorld>>, DefaultArgs, -1, MaxNested)
  \/ ContextExit(-1)

\* A writer on an empty sink, the run keeping its log.
InitNested == Construct(<<>>, TRUE)

SpecNested == InitNested /\ [][NextNested]_vars

----------------------------------------------------------------------------
\* Reading a step and a sink

\* The chunks a step of the writer appended to out_file.
Emitted == SubSeq(out_file', Len(out_file) + 1, Len(out_file'))

IsWhitespace(c) == c.k \in {"indent", "space", "newline"}
IsMarkup(c) == ~IsWhitespace(c)
IsNewline(c) == c.k = "newline"
IsStartTag(c) == c.k = "start_tag"
IsEndTag(c) == c.k = "end_tag"

\* The strings of a sequence of chunks, and their concatenation.
Strings(chunks) == [i \in DOMAIN chunks |-> chunks[i].s]
Text(chunks) == Concat(Strings(chunks))

Top(stk) == IF stk = <<>> THEN root_stack ELSE stk[Len(stk)]
Front(stk) == SubSeq(stk, 1, Len(stk) - 1)

FlagsUnchanged ==
  /\ current_line_indent_written' = current_line_indent_written
  /\ last_write_is_tag' = last_write_is_tag

\* The operations that are one call of write_end_tag.
EndOps == {"write_end_tag", "context_exit", "context_unwind"}

----------------------------------------------------------------------------
\* C1..C10

\* C1 (as claimed): when the block of writer.context(tag) is left, by an
\* exception of its body or normally, and its body called neither
\* write_start_tag nor write_end_tag itself, __exit__ has written the end tag
\* of tag, and only that one, and the stack has the depth it had before the
\* block.  Fails: a write that raised in the body left a frame behind (C3,
\* C4), and __exit__ pops that one.
C1_ScopeClosesItsElement ==
  [][(last'.op \in {"context_exit", "context_unwind"} /\ last'.fault = "none"
        /\ ~Inner.raw)
       => /\ SelectSeq(Emitted, IsEndTag) = <<Chunk("end_tag", end_tag(Inner.tag))>>
          /\ last'.op = "context_unwind" => Len(stack') = Inner.depth]_vars

\* C2: a buffered scope that ends normally leaves the original sink with its
\* content before the scope followed by the buffer; one that raises (its body,
\* or the sink rejecting the copy) leaves it with its content before the
\* scope; either way out_file is the original sink again.  Inside the scope
\* the writer only appends to the buffer and no saved sink changes, and an
\* exception that leaves the scope is the one that entered it.
C2_BufferedScopeAllOrNothing ==
  [][/\ (last'.op = "buffer_exit" /\ last'.fault = "none")
          => /\ out_file' = Inner.old_out_file \o out_file
             /\ buffered' = Inner.old_buffered
     /\ (last'.op = "buffer_unwind"
           \/ (last'.op = "buffer_exit" /\ last'.fault # "none"))
          => /\ out_file' = Inner.old_out_file
             /\ buffered' = Inner.old_buffered
             /\ exc' \in {"none", IF last'.op = "buffer_unwind" THEN exc
                                  ELSE last'.fault}
     /\ (buffered /\ last'.op \notin {"buffer_enter", "buffer_exit", "buffer_unwind"})
          => /\ buffered'
             /\ Len(out_file') >= Len(out_file)
             /\ SubSeq(out_file', 1, Len(out_file)) = out_file
             /\ \A i \in DOMAIN scopes' \cap DOMAIN scopes :
                  scopes'[i].old_out_file = scopes[i].old_out_file]_vars

\* C2's case: a scope that had written to its buffer was left by an
\* exception, and the sink holds what it held before.
C2_Witness ==
  /\ last.op = "buffer_unwind"
  /\ last.buffer # <<>>
  /\ out_file = Prior
  /\ ~buffered

\* C3 (as claimed): a write that raised after write_start_tag had written a
\* start tag has written as many end tags and left the stack as it found it.
C3_FaultedWriteClosesItsTags ==
  [][(last'.op = "write" /\ last'.fault # "none"
        /\ SelectSeq(Emitted, IsStartTag) # <<>>)
       => /\ stack' = stack
          /\ Len(SelectSeq(Emitted, IsEndTag)) = Len(SelectSeq(Emitted, IsStartTag))]_vars

\* C4 (as claimed): a write that raised ValueError has written nothing and
\* changed neither the stack nor the line-position flags.
C4_MalformedWriteWritesNothing ==
  [][(last'.op = "write" /\ last'.fault = "ValueError")
       => /\ out_file' = out_file
          /\ stack' = stack
          /\ FlagsUnchanged]_vars

\* What an item puts on the sink, whitespace aside.
RECURSIVE Rendered(_)
RECURSIVE RenderedAll(_)
Rendered(item) ==
  CASE item.k = "none" -> <<>>
    [] item.k = "str"  -> <<escape(item)>>
    [] item.k = "list" -> RenderedAll(item.sub)
    [] OTHER -> <<start_tag(item)>>
                \o (IF HasContents(item) /\ Truthy(item.sub[1])
                    THEN Rendered(item.sub[1]) ELSE <<>>)
                \o <<end_tag(item)>>
RenderedAll(items) ==
  IF items = <<>> THEN <<>> ELSE Rendered(Head(items)) \o RenderedAll(Tail(items))

Reversed(seq) == [i \in DOMAIN seq |-> seq[Len(seq) + 1 - i]]

\* C5: a write of t1, ..., tn, content (n >= 1) that returns has written the
\* start tags of t1..tn in this order, then the content, then the end tags of
\* tn..t1, and the stack is the one before the call; so it is after a write
\* of one item.
C5_ChainedWriteBalanced ==
  [][(last'.op = "write" /\ last'.fault = "none")
       => LET items == last'.items
              tags == SubSeq(items, 1, Len(items) - 1)
          IN /\ stack' = stack
             /\ Strings(SelectSeq(Emitted, IsMarkup))
                  = [i \in DOMAIN tags |-> start_tag(tags[i])]
                    \o Rendered(items[Len(items)])
                    \o Reversed([i \in DOMAIN tags |-> end_tag(tags[i])])]_vars

\* C5's case: a write of two tags and a content returned, inside an element.
C5_Witness ==
  /\ last.op = "write"
  /\ last.fault = "none"
  /\ Len(last.items) = 3
  /\ stack # <<>>

\* C6: write_end_tag on an empty stack raises IndexError, writes nothing and
\* leaves the flags; on a stack with frames it pops the top frame, and when it
\* returns it has written that frame's end tag and no other tag.
C6_EndTagUnderflowAndLifo ==
  [][/\ (last'.op \in EndOps /\ stack = <<>>)
          => /\ last'.fault = "IndexError"
             /\ out_file' = out_file
             /\ stack' = stack
             /\ FlagsUnchanged
     /\ (last'.op \in EndOps /\ stack # <<>>)
          => /\ last'.fault # "IndexError"
             /\ stack' = Front(stack)
             /\ last'.fault = "none"
                  => SelectSeq(Emitted, IsMarkup)
                       = <<Chunk("end_tag", end_tag(Top(stack).tag))>>]_vars

\* C6's case: write_end_tag was called with no element open.
C6_Witness ==
  /\ last.op = "write_end_tag"
  /\ last.fault = "IndexError"
  /\ stack = <<>>

\* C7: under a top frame with contents_same_line no write and no open writes
\* a newline, whatever its arguments; closing an element whose parent frame
\* has contents_same_line writes none; and opening an element with
\* contents_same_line writes none after its start tag.
C7_NoNewlineInSameLineContents ==
  [][/\ (last'.op \in {"write", "write_start_tag", "context_enter"}
           /\ Top(stack).contents_same_line)
          => SelectSeq(Emitted, IsNewline) = <<>>
     /\ (last'.op \in EndOps /\ stack # <<>> /\ Top(Front(stack)).contents_same_line)
          => SelectSeq(Emitted, IsNewline) = <<>>
     /\ (last'.op \in {"write_start_tag", "context_enter"}
           /\ last'.args.contents_same_line)
          => SelectSeq(Emitted, IsNewline) = <<>>]_vars

\* C7's case: inside an element with contents_same_line, a write of two tags
\* and a text that asked for contents and tags on lines of their own.
C7_Witness ==
  /\ last.op = "write"
  /\ last.fault = "none"
  /\ Len(last.items) = 3
  /\ ~last.args.contents_same_line
  /\ ~last.args.tags_same_line
  /\ ~last.args.next_same_line
  /\ Top(stack).contents_same_line

\* The lines of an element at indent level n around texts on lines of their own.
RECURSIVE TextLines(_, _)
TextLines(texts, n) ==
  IF texts = <<>> THEN ""
  ELSE Repeat(indent_unit, n) \o escape(Head(texts)) \o "\n"
       \o TextLines(Tail(texts), n)
ElementLines(tag, texts, n) ==
  Repeat(indent_unit, n) \o start_tag(tag) \o "\n"
  \o TextLines(texts, n + 1)
  \o Repeat(indent_unit, n) \o end_tag(tag) \o "\n"

IsTexts(item) ==
  /\ item.k = "list"
  /\ item.sub # <<>>
  /\ \A i \in DOMAIN item.sub : item.sub[i].k = "str"

\* C8 (as claimed): at the start of a line, under a frame without same-line
\* flags, a write with contents_same_line disabled and indentation enabled of
\* an element with texts, given as the element's contents or as the last
\* argument after the element, writes the start tag, each text and the end
\* tag on lines of their own, the texts one indent unit deeper than the tags.
C8_ElementWithContentsOnOwnLines ==
  [][(/\ last'.op = "write"
      /\ last'.fault = "none"
      /\ ~last'.args.contents_same_line
      /\ ~last'.args.next_same_line
      /\ last'.args.indent /\ last'.args.indent_tags /\ last'.args.indent_contents
      /\ ~current_line_indent_written
      /\ ~Top(stack).contents_same_line
      /\ ~Top(stack).next_child_same_line)
       => LET items == last'.items
              n == Top(stack).indent_level
          IN /\ (Len(items) = 1 /\ IsTag(items[1]) /\ HasContents(items[1])
                   /\ IsTexts(items[1].sub[1]))
                  => Text(Emitted) = ElementLines(items[1], items[1].sub[1].sub, n)
             /\ (Len(items) = 2 /\ IsTag(items[1]) /\ IsTexts(items[2]))
                  => Text(Emitted) = ElementLines(items[1], items[2].sub, n)]_vars

\* The run of C9: div opened with next_child_same_line, span opened inside it
\* with contents_same_line as given, the text written, both closed.
NestedRun(span_contents_same_line) ==
  log = << Created,
           Op("context_enter", "none", <<div>>, TagArgs(TRUE, FALSE, TRUE), <<>>),
           Op("context_enter", "none", <<span>>,
              TagArgs(FALSE, span_contents_same_line, TRUE), <<>>),
           Op("write", "none", <<HelloWorld>>, DefaultArgs, <<>>),
           Op("context_exit", "none", <<span>>, DefaultArgs, <<>>),
           Op("context_exit", "none", <<div>>, DefaultArgs, <<>>) >>

ThreeLines == "<div><span>\n  Hello world\n</span></div>\n"

\* C9 (as claimed): with contents_same_line enabled for span the run writes
\* the three lines.
C9_AsClaimed == NestedRun(TRUE) => Text(out_file) = ThreeLines

\* C9 (amended): with contents_same_line left disabled for span the run
\* writes the three lines '<div><span>', '  Hello world', '</span></div>';
\* with it enabled the run writes the one line
\* '<div><span>Hello world</span></div>'.
C9_NestedSameLine ==
  /\ NestedRun(FALSE) => Text(out_file) = ThreeLines
  /\ NestedRun(TRUE) => Text(out_file) = "<div><span>Hello world</span></div>\n"

\* C9's case: the run with contents_same_line disabled for span is complete.
C9_Witness == NestedRun(FALSE)

\* C10 (as claimed): a space on the sink directly follows a text and is
\* directly followed by a text, and a text never follows a text directly.
C10_SpaceOnlyBetweenTexts ==
  \A i \in DOMAIN out_file :
    /\ out_file[i].k = "space"
         => /\ i > 1 /\ out_file[i - 1].k = "text"
            /\ i < Len(out_file) /\ out_file[i + 1].k = "text"
    /\ (out_file[i].k = "text" /\ i > 1) => out_file[i - 1].k # "text"

----------------------------------------------------------------------------
\* C11..C20

\* The names the tag properties are compared on: the void-tag table and some
\* names outside it.
SomeNames == void_tags \cup {"div", "span", "script", "a", "p"}

\* C11: for a name of the void-tag table end_tag is '' and empty_tag is what
\* start_tag returns; for any other name end_tag is '</name>' and empty_tag
\* is what start_tag returns followed by it.  A write of a void element, and
\* write_end_tag closing one, writes '' where the end tag goes, and a write
\* of an element without contents that is not void writes its start tag and
\* directly after it its end tag.
C11_VoidAndEmptyTags ==
  [][LET tag == last'.items[1]
         closing == IF tag.name \in void_tags THEN "" ELSE "</" \o tag.name \o ">"
     IN /\ \A name \in SomeNames :
             /\ end_tag(Tag(name)) = IF name \in void_tags THEN ""
                                     ELSE "</" \o name \o ">"
             /\ empty_tag(Tag(name), start_tag(Tag(name)))
                  = start_tag(Tag(name)) \o end_tag(Tag(name))
        /\ last'.op = "end_tag" => returned' = closing
        /\ last'.op = "empty_tag"
             => returned' = lru_start_tag(cache', tag) \o closing
        /\ (last'.op = "write" /\ last'.items = <<tag>> /\ IsTag(tag))
             => \E i \in DOMAIN Emitted :
                  /\ i < Len(Emitted)
                  /\ Emitted[i] = Chunk("item_start_tag", lru_start_tag(cache', tag))
                  /\ Emitted[i + 1] = Chunk("item_end_tag", closing)
                  /\ \A j \in DOMAIN Emitted \ {i, i + 1} : IsWhitespace(Emitted[j])
        /\ (last'.op = "write_end_tag" /\ last'.fault = "none"
              /\ Top(stack).tag.name \in void_tags)
             => SelectSeq(Emitted, IsMarkup) = <<Chunk("end_tag", "")>>]_vars

\* C11's case: empty_tag of a void element with attributes was read.
C11_Witness ==
  /\ last.op = "empty_tag"
  /\ last.items[1].name \in void_tags
  /\ last.items[1].args # <<>>
  /\ returned # "None"
  /\ nops = MaxTagOps

\* Pairs of (name, value) in ascending order of their names.
RECURSIVE Ascending(_)
Ascending(pairs) ==
  IF pairs = {} THEN <<>>
  ELSE LET first == CHOOSE p \in pairs :
                      \A q \in pairs : ~NameLess(q[1], p[1])
       IN <<first>> \o Ascending(pairs \ {first})

\* The start tag in canonical order: class, style, then the other attributes
\* in ascending order of their normalized names; falsy values left out, a
\* boolean attribute as its bare name.
CanonicalStartTag(tag) ==
  LET tag_args == SelectSeq(tag.args, IsTagPair)
      normalized == {<<optimize_attr_name(tag_args[i][1]), tag_args[i][2]>> :
                       i \in DOMAIN tag_args}
      others == Ascending(normalized)
      pairs == << <<"class", class_value(tag.class_)>>,
                  <<"style", Str(style_atoms(tag.style, tag.args))>> >>
               \o [i \in DOMAIN others |-> <<Concat(others[i][1]), others[i][2]>>]
      shown == SelectSeq(pairs, HasTruthyValue)
      args_html == Concat(JoinAtoms([i \in DOMAIN shown |-> <<args_item(shown[i])>>]))
  IN IF args_html # "" THEN "<" \o tag.name \o " " \o args_html \o ">"
     ELSE "<" \o tag.name \o ">"

\* C12 (as claimed): start_tag of a descriptor, computed when the cache held
\* no entry for it, is the start tag in canonical order.  Fails: line 109
\* sorts the keyword arguments by their names as given, and line 82
\* normalizes the names afterwards.
C12_AttributesInCanonicalOrder ==
  (last.op = "start_tag"
     /\ cache = {[key |-> CacheKey(last.items[1]), value |-> returned]})
    => returned = CanonicalStartTag(last.items[1])

\* C13 (as claimed): whatever was rendered before, start_tag of a descriptor
\* is what _start_tag computes from the descriptor's own fields.  Fails:
\* lru_cache looks its entries up by == of the arguments, and True == 1, so
\* a descriptor gets the start tag of an earlier one whose values compare
\* equal to its own and are rendered differently.
C13_CacheTransparent ==
  last.op = "start_tag" => returned = start_tag(last.items[1])

\* The texts and the descriptors an item is made of.
RECURSIVE Parts(_)
Parts(item) ==
  CASE item.k = "list" -> UNION {Parts(item.sub[i]) : i \in DOMAIN item.sub}
    [] item.k = "tag"  -> {item} \cup (IF HasContents(item) THEN Parts(item.sub[1])
                                       ELSE {})
    [] OTHER           -> {item}

\* No attribute value of the descriptor is a Markup instance.
PlainValues(tag) ==
  /\ \A i \in DOMAIN tag.args : tag.args[i][2].k # "markup"
  /\ \A i \in DOMAIN tag.style : tag.style[i][2].k # "markup"

IsTagStart(c) == c.k \in {"start_tag", "item_start_tag"}

\* C14 (as claimed): every text a write, write_start_tag or context puts on
\* the sink is escape of a str among its items, and the start tag it writes
\* for a descriptor whose attribute values are plain str, bool or int is the
\* one with every value escaped.  Fails for the attribute values: an entry
\* the cache took from a descriptor with a Markup value is handed to a
\* descriptor with the equal str (C13), which reaches the sink as it is.
C14_EverythingEscaped ==
  [][(last'.op \in {"write", "write_start_tag", "context_enter"}
        /\ last'.fault = "none")
       => LET parts == UNION {Parts(last'.items[i]) : i \in DOMAIN last'.items}
              tags == {part \in parts : IsTag(part)}
          IN /\ \A i \in DOMAIN Emitted :
                  Emitted[i].k = "text"
                    => \E part \in parts :
                         part.k = "str" /\ Emitted[i].s = escape(part)
             /\ \A tag \in tags :
                  (tags = {tag} /\ PlainValues(tag))
                    => Strings(SelectSeq(Emitted, IsTagStart)) = <<start_tag(tag)>>]_vars

\* C15 (as claimed): every frame pushed is one level deeper than its parent
\* unless next_child_same_line is set for the push, whatever the other
\* arguments of the open.  Fails with indent disabled.
C15_AsClaimed ==
  \A i \in DOMAIN pushed :
    pushed[i].new_stack.indent_level
      = IF pushed[i].next_child_same_line THEN pushed[i].prev_stack.indent_level
        ELSE pushed[i].prev_stack.indent_level + 1

\* C15 (amended): every frame pushed by write_start_tag, called directly,
\* by context or by a chained write, is one level deeper than its parent
\* when indent is enabled for the open and next_child_same_line is not set
\* for the push, and at its parent's level otherwise; an open that returned
\* left that frame on top of the stack, above its parent.
C15_FrameIndentLevel ==
  /\ \A i \in DOMAIN pushed :
       /\ pushed[i].new_stack.indent_level
            = IF pushed[i].indent /\ ~pushed[i].next_child_same_line
              THEN pushed[i].prev_stack.indent_level + 1
              ELSE pushed[i].prev_stack.indent_level
       /\ i > 1 => pushed[i].prev_stack = pushed[i - 1].new_stack
  /\ (last.op \in {"write_start_tag", "context_enter"} /\ last.fault = "none")
       => /\ Len(pushed) = 1
          /\ pushed[1].indent = last.args.indent
          /\ pushed[1].next_child_same_line = last.args.next_child_same_line
          /\ stack # <<>>
          /\ Top(stack) = pushed[1].new_stack
          /\ Top(Front(stack)) = pushed[1].prev_stack

\* C15's case: a chained write inside an element, with indent_tags disabled,
\* pushed a frame without next_child_same_line at its parent's level.
C15_Witness ==
  /\ last.op = "write"
  /\ stack # <<>>
  /\ Len(pushed) = 2
  /\ ~pushed[2].indent
  /\ ~pushed[2].next_child_same_line
  /\ pushed[2].new_stack.indent_level = pushed[2].prev_stack.indent_level

\* The run of C16: div opened with next_child_same_line, and inside it span
\* opened and closed twice, every other option left at its default.
TwoChildrenRun ==
  log = << Created,
           Op("context_enter", "none", <<div>>, TagArgs(TRUE, FALSE, TRUE), <<>>),
           Op("context_enter", "none", <<span>>, TagArgs(FALSE, FALSE, TRUE), <<>>),
           Op("context_exit", "none", <<span>>, DefaultArgs, <<>>),
           Op("context_enter", "none", <<span>>, TagArgs(FALSE, FALSE, TRUE), <<>>),
           Op("context_exit", "none", <<span>>, DefaultArgs, <<>>) >>

\* C16 (as claimed): next_child_same_line of div's frame keeps the first
\* child on the line of div's start tag and does not keep the line open
\* after the end tag of the second child: the run ends with a newline.
\* Fails: write_end_tag (line 247) reads the flag of the frame it returns
\* to at every close.
C16_FlagAppliesToFirstChildOnly ==
  TwoChildrenRun
    => /\ SubSeq(Strings(out_file), 1, 3) = <<"", "<div>", "<span>">>
       /\ IsNewline(out_file[Len(out_file)])

\* Everything written and not discarded: the sinks the open buffered scopes
\* put aside, outermost first, and out_file.
RECURSIVE Aside(_)
Aside(blocks) ==
  IF blocks = <<>> THEN <<>>
  ELSE (IF Head(blocks).kind = "buffer" THEN Head(blocks).old_out_file ELSE <<>>)
       \o Aside(Tail(blocks))
Written == Aside(scopes) \o out_file

\* The start tags among the chunks that no later end tag closes, in the
\* order they were written.
RECURSIVE Unclosed(_, _)
Unclosed(chunks, open) ==
  IF chunks = <<>> THEN open
  ELSE IF Head(chunks).k \in {"start_tag", "item_start_tag"}
  THEN Unclosed(Tail(chunks), Append(open, Head(chunks).s))
  ELSE IF Head(chunks).k \in {"end_tag", "item_end_tag"}
  THEN Unclosed(Tail(chunks), SubSeq(open, 1, Len(open) - 1))
  ELSE Unclosed(Tail(chunks), open)

\* C17 (as claimed): between the operations, faulted ones included, the
\* frames of the stack are, bottom to top, the elements whose start tag is
\* written and whose end tag is not, and the frame below them is the root
\* frame, without element and at level 0.  Fails: write_start_tag pushes the
\* frame before it writes (line 235), write_end_tag pops it before it writes
\* (line 242), and a write that is rejected leaves the stack as changed.
C17_StackMirrorsOpenElements ==
  /\ [i \in DOMAIN stack |-> start_tag(stack[i].tag)] = Unclosed(Written, <<>>)
  /\ get_current_stack([stack |-> <<>>]) = writer_stack_item(NoneV, 0, FALSE, FALSE)

\* C18: contents_same_line of every frame pushed is that of its parent or
\* the value requested for the push, so on the stack every frame above a
\* frame with contents_same_line has it as well.
C18_ContentsSameLineSticky ==
  /\ \A i \in DOMAIN pushed :
       pushed[i].new_stack.contents_same_line
         = (pushed[i].prev_stack.contents_same_line \/ pushed[i].contents_same_line)
  /\ \A i \in DOMAIN stack, j \in DOMAIN stack :
       (i < j /\ stack[i].contents_same_line) => stack[j].contents_same_line

\* C18's case: inside an element with contents_same_line an element was
\* opened without it, and its frame has it.
C18_Witness ==
  /\ last.op \in {"write_start_tag", "context_enter"}
  /\ ~last.args.contents_same_line
  /\ Len(stack) = 2
  /\ stack[1].contents_same_line
  /\ stack[2].contents_same_line

\* C19 (as claimed): when a buffered scope is left by an exception, of its
\* body or of the sink rejecting the copy, the stack and the two
\* line-position flags are what they were when the scope was entered.
\* Fails: only_write_if_successful saves and restores out_file alone.
C19_FailedScopeLeavesNoTrace ==
  [][(last'.op = "buffer_unwind"
        \/ (last'.op = "buffer_exit" /\ last'.fault # "none"))
       => /\ stack' = Inner.entry.stack
          /\ current_line_indent_written' = Inner.entry.current_line_indent_written
          /\ last_write_is_tag' = Inner.entry.last_write_is_tag]_vars

\* The operations that are a method of the writer.
WriterOps == {"write", "write_start_tag", "context_enter"} \cup EndOps

\* Chunk i is the first of its line.
LineStart(chunks, i) == i = 1 \/ chunks[i - 1].k \in {"newline", "prior"}

IsIndent(c) == c.k = "indent"

\* C20 (as claimed).
\* (1) Every line of what is written begins with its indentation, written
\*     once.
\* (2) A method that writes while the line is marked not-yet-indented writes
\*     the indentation first.
\* (3) After a method that wrote, the line is marked not-yet-indented if
\*     and only if the last thing it wrote is a newline.
\* (4) The indentation an open, a close or a write of one text writes is
\*     the indent unit repeated indent-level times, the level being that of
\*     the frame the tag or text is written under, and zero times with
\*     indent disabled.
\* (5) The end tag an element scope writes at the start of a line has the
\*     indentation its start tag got at the start of a line.
\* Fails in (1): a buffered scope left by an exception keeps the flags as
\* its body left them (C19), so the next line of the sink starts without
\* indentation, or indentation is written in the middle of a line.
C20_IndentationOncePerLine ==
  [][/\ \A i \in DOMAIN Written' :
          Written'[i].k # "prior"
            => (LineStart(Written', i) <=> IsIndent(Written'[i]))
     /\ (last'.op \in WriterOps /\ Emitted # <<>>)
          => /\ ~current_line_indent_written => IsIndent(Emitted[1])
             /\ current_line_indent_written' = ~IsNewline(Emitted[Len(Emitted)])
     /\ (last'.op \in {"write_start_tag", "context_enter"})
          => \A i \in DOMAIN Emitted :
               IsIndent(Emitted[i])
                 => Emitted[i].s = Repeat(indent_unit,
                                          IF last'.args.indent
                                          THEN Top(stack).indent_level ELSE 0)
     /\ (last'.op \in EndOps /\ stack # <<>>)
          => \A i \in DOMAIN Emitted :
               IsIndent(Emitted[i])
                 => Emitted[i].s
                      = Repeat(indent_unit,
                               IF (IF last'.op = "write_end_tag"
                                   THEN last'.args.indent ELSE Inner.indent)
                               THEN Top(Front(stack)).indent_level ELSE 0)
     /\ (last'.op = "write" /\ Len(last'.items) = 1 /\ last'.items[1].k = "str")
          => \A i \in DOMAIN Emitted :
               IsIndent(Emitted[i])
                 => Emitted[i].s
                      = Repeat(indent_unit,
                               IF last'.args.indent /\ last'.args.indent_contents
                               THEN Top(stack).indent_level ELSE 0)
     /\ (last'.op = "context_exit" /\ last'.fault = "none" /\ ~Inner.raw
           /\ Len(stack') = Inner.depth
           /\ ~Inner.entry.current_line_indent_written
           /\ IsIndent(Emitted[1]))
          => Emitted[1].s
               = Repeat(indent_unit,
                        IF Inner.indent
                        THEN Top(Inner.entry.stack).indent_level ELSE 0)]_vars

====
